---- MODULE Spec2Model ----
(***************************************************************************)
(* Reassembly of a document cut into vertical strips (SurpriseManager).    *)
(*                                                                         *)
(* Three variants of SurpriseManager.surprise are modelled:                *)
(*   "sad_list"  surprise_manager.py (and its copy surprise_manager_       *)
(*               working.py): RGB edges as lists, SAD cost, greedy chain   *)
(*   "sad_numpy" surprise_manager_opti.py: RGB edges as arrays, SAD cost,  *)
(*               greedy chain                                              *)
(*   "ncc_2opt"  surprise_manager_new.py: grayscale edges, NCC cost,       *)
(*               greedy chain, then _apply_2_opt                           *)
(*                                                                         *)
(* Positions and ids are 0-based as in the source; a Python list is a TLA+ *)
(* sequence, so the element at Python position k is seq[k + 1].            *)
(*                                                                         *)
(* Costs are floats in the source.  They are kept here as integers: a SAD  *)
(* cost is an integer already; an NCC cost is kept in units of 1/CostScale *)
(* (fixed point).  float('inf') is the value Inf, and the float results    *)
(* -inf, +inf and nan of a subtraction are kept apart (see FSub).          *)
(***************************************************************************)
EXTENDS Integers, Sequences, FiniteSets, TLC

VARIABLES
    variant,          \* which surprise_manager*.py is running
    slices_bytes,     \* the argument of surprise: one decode outcome per strip
    num_slices,       \* len(slices_bytes)
    pc,               \* position of the call
    slice_edge_data,  \* list of {"id", left edge, right edge}
    common_height,    \* None is 0
    dissimilarity_matrix,
    initial_permutation,   \* best_overall_permutation / initial_permutation
    min_overall,           \* min_overall_dissimilarity / min_overall_greedy_cost
    current_permutation,   \* _apply_2_opt's working list
    i, j,                  \* _apply_2_opt's loop indices
    improved,
    min_delta,
    result                 \* the value returned to the caller

vars == << variant, slices_bytes, num_slices, pc, slice_edge_data, common_height,
           dissimilarity_matrix, initial_permutation, min_overall,
           current_permutation, i, j, improved, min_delta, result >>

(***************************************************************************)
(* Bounds of the model.                                                    *)
(***************************************************************************)
\* Largest number of strips in one request.
MaxN == 5

Variants == {"sad_list", "sad_numpy", "ncc_2opt"}

(***************************************************************************)
(* Floats.                                                                 *)
(***************************************************************************)
\* float('inf'): costs are never negative, so a negative number encodes it.
Inf == -1

\* The fixed-point value of the float 1.0 of an NCC cost.
CostScale == 1000

\* a < b on floats that are finite or +inf.
FLt(a, b) == IF a = Inf THEN FALSE ELSE IF b = Inf THEN TRUE ELSE a < b

\* a + b on floats that are finite or +inf.
FAdd(a, b) == IF a = Inf \/ b = Inf THEN Inf ELSE a + b

\* A float that may also be -inf or nan: the result of a subtraction.
Num(x) == [kind |-> "num", val |-> x]
PosInf == [kind |-> "+inf", val |-> 0]
NegInf == [kind |-> "-inf", val |-> 0]
NaN == [kind |-> "nan", val |-> 0]

\* a - b on floats that are finite or +inf.
FSub(a, b) ==
    IF a = Inf /\ b = Inf THEN NaN
    ELSE IF a = Inf THEN PosInf
    ELSE IF b = Inf THEN NegInf
    ELSE Num(a - b)

\* x < y on floats that may be -inf, +inf or nan (every comparison with nan is False).
XLt(x, y) ==
    IF x.kind = "nan" \/ y.kind = "nan" THEN FALSE
    ELSE IF x.kind = "-inf" THEN y.kind # "-inf"
    ELSE IF x.kind = "+inf" THEN FALSE
    ELSE IF y.kind = "-inf" THEN FALSE
    ELSE IF y.kind = "+inf" THEN TRUE
    ELSE x.val < y.val

(***************************************************************************)
(* self.epsilon = 1e-9.  Every cost of the model is a whole number of cost *)
(* units and a cost unit is far larger than 1e-9, so on these values       *)
(* "d < -epsilon" is "d < 0", "std < epsilon" is "std = 0" and             *)
(* "abs(m1 - m2) < epsilon" is "m1 = m2".                                  *)
(***************************************************************************)
NegEpsilon == Num(0)

(***************************************************************************)
(* Sequences.                                                              *)
(***************************************************************************)
\* list(range(n))
Range(n) == [k \in 1..n |-> k - 1]

RECURSIVE SumSeq(_)
SumSeq(s) == IF s = <<>> THEN 0 ELSE Head(s) + SumSeq(Tail(s))

Abs(x) == IF x < 0 THEN -x ELSE x

\* s[a:b] of Python, 0-based, b exclusive.
Slice(s, a, b) == [k \in 1..(b - a) |-> s[a + k]]

\* list.reverse()
Reverse(s) == [k \in 1..Len(s) |-> s[Len(s) + 1 - k]]

(***************************************************************************)
(* The request.  A strip's bytes are modelled by what decoding them gives: *)
(* a failure, or the leftmost and rightmost pixel columns of a grayscale   *)
(* image (gray levels, top to bottom).  The height is the columns' length. *)
(***************************************************************************)
Image(l, r) == [ok |-> TRUE, left |-> l, right |-> r]
Undecodable == [ok |-> FALSE, left |-> <<>>, right |-> <<>>]

\* The strips a request is made of: four strips of height 3, two of height 2
\* (one of them blank), and one whose bytes do not decode.
StripBytes ==
    { Image(<<0, 0, 0>>, <<0, 1, 0>>),
      Image(<<1, 0, 0>>, <<0, 0, 0>>),
      Image(<<1, 1, 1>>, <<1, 0, 1>>),
      Image(<<0, 1, 0>>, <<1, 1, 1>>),
      Image(<<0, 0>>, <<0, 1>>),
      Image(<<0, 0>>, <<0, 0>>),
      Undecodable }

(***************************************************************************)
(* Edge extraction.                                                        *)
(***************************************************************************)
\* img.convert("RGB") of a gray pixel, img.getpixel / img_array[:, 0, :]
Rgb(g) == << g, g, g >>
RgbColumn(col) == [y \in 1..Len(col) |-> Rgb(col[y])]

\* _get_edges_from_image_bytes (RGB variants): raises when decoding fails.
GetEdgesRaises(bytes) == ~bytes.ok
GetEdges(bytes) ==
    [left |-> RgbColumn(bytes.left), right |-> RgbColumn(bytes.right),
     height |-> Len(bytes.left)]

\* A variant of the decoder that answers a failed decode with a blank
\* one-pixel placeholder instead of (None, None, 0).
GetGrayscaleEdgesPlaceholder(bytes) ==
    IF bytes.ok
    THEN [valid |-> TRUE, left |-> bytes.left, right |-> bytes.right,
          height |-> Len(bytes.left)]
    ELSE [valid |-> TRUE, left |-> << 0 >>, right |-> << 0 >>, height |-> 1]

\* _get_grayscale_edges_from_image_bytes: (None, None, 0) when decoding fails;
\* None is the empty column with valid = FALSE.
GetGrayscaleEdges(bytes) ==
    IF bytes.ok
    THEN [valid |-> TRUE, left |-> bytes.left, right |-> bytes.right,
          height |-> Len(bytes.left)]
    ELSE [valid |-> FALSE, left |-> <<>>, right |-> <<>>, height |-> 0]

\* The extraction loop of surprise, from strip k (0-based) on.  fallback = TRUE
\* is "return list(range(num_slices))" from inside the loop.
RECURSIVE ExtractLoop(_, _, _, _, _)
ExtractLoop(v, bytes, k, data, ch) ==
    IF k >= Len(bytes) THEN [fallback |-> FALSE, data |-> data, common_height |-> ch]
    ELSE IF v = "ncc_2opt"
    THEN LET e == GetGrayscaleEdges(bytes[k + 1]) IN
         IF ~e.valid \/ e.height = 0
         THEN [fallback |-> TRUE, data |-> data, common_height |-> ch]
         ELSE ExtractLoop(v, bytes, k + 1,
                  Append(data, [id |-> k, left |-> e.left, right |-> e.right]), ch)
    ELSE IF GetEdgesRaises(bytes[k + 1])
    THEN [fallback |-> TRUE, data |-> data, common_height |-> ch]
    ELSE LET e == GetEdges(bytes[k + 1]) IN
         IF ch # 0 /\ ch # e.height
         THEN [fallback |-> TRUE, data |-> data, common_height |-> ch]
         ELSE ExtractLoop(v, bytes, k + 1,
                  Append(data, [id |-> k, left |-> e.left, right |-> e.right]),
                  e.height)

(***************************************************************************)
(* Similarity scorers.                                                     *)
(***************************************************************************)
\* _calculate_edge_difference raises ValueError unless both edges have `height` rows.
EdgeDifferenceRaises(edge1_pixels, edge2_pixels, height) ==
    Len(edge1_pixels) # height \/ Len(edge2_pixels) # height

\* _calculate_edge_difference: sum of absolute differences over rows and channels.
EdgeDifference(edge1_pixels, edge2_pixels, height) ==
    SumSeq([y \in 1..height |->
              Abs(edge1_pixels[y][1] - edge2_pixels[y][1])
            + Abs(edge1_pixels[y][2] - edge2_pixels[y][2])
            + Abs(edge1_pixels[y][3] - edge2_pixels[y][3])])

\* Row y of an array of shape (h, 3) broadcast against another: an array of
\* one row repeats it.
Row(arr, y) == IF Len(arr) = 1 THEN arr[1] ELSE arr[y]
Rows(a, b) == IF Len(a) >= Len(b) THEN Len(a) ELSE Len(b)

\* edge1_array - edge2_array raises unless the shapes broadcast.
EdgeDifferenceNumpyRaises(edge1_array, edge2_array) ==
    /\ Len(edge1_array) # Len(edge2_array)
    /\ Len(edge1_array) # 1
    /\ Len(edge2_array) # 1

\* _calculate_edge_difference_numpy: np.sum(np.abs(a - b)).
EdgeDifferenceNumpy(edge1_array, edge2_array) ==
    SumSeq([y \in 1..Rows(edge1_array, edge2_array) |->
              Abs(Row(edge1_array, y)[1] - Row(edge2_array, y)[1])
            + Abs(Row(edge1_array, y)[2] - Row(edge2_array, y)[2])
            + Abs(Row(edge1_array, y)[3] - Row(edge2_array, y)[3])])

\* size * size * variance of an edge: zero exactly when np.std is zero.
VarTimesSizeSq(edge) ==
    Len(edge) * SumSeq([y \in 1..Len(edge) |-> edge[y] * edge[y]])
      - SumSeq(edge) * SumSeq(edge)

\* std < self.epsilon: gray levels are whole numbers, so a std that is not 0
\* is at least 1/size.
IsFlat(edge) == VarTimesSizeSq(edge) = 0

\* abs(mean1 - mean2) < self.epsilon: two means that differ, differ by at
\* least 1/(size1 * size2).
SameMean(edge1, edge2) == SumSeq(edge1) * Len(edge2) = SumSeq(edge2) * Len(edge1)

\* floor(sqrt(x)) for lo*lo <= x < (hi+1)*(hi+1), by bisection.
RECURSIVE ISqrtIn(_, _, _)
ISqrtIn(x, lo, hi) ==
    IF lo >= hi THEN lo
    ELSE LET mid == (lo + hi + 1) \div 2 IN
         IF mid * mid <= x THEN ISqrtIn(x, mid, hi) ELSE ISqrtIn(x, lo, mid - 1)

\* np.clip(ncc, -1.0, 1.0) in cost units.
Clip(x) == IF x < -CostScale THEN -CostScale ELSE IF x > CostScale THEN CostScale ELSE x

\* (edge1 - mean1) * (edge2 - mean2) raises ValueError unless the shapes (h1,)
\* and (h2,) broadcast; it is reached only when neither edge is flat, and an
\* edge of one row is flat.
NccCostRaises(edge1_gray, edge2_gray) ==
    /\ Len(edge1_gray) # 0 /\ Len(edge2_gray) # 0
    /\ ~IsFlat(edge1_gray) /\ ~IsFlat(edge2_gray)
    /\ Len(edge1_gray) # Len(edge2_gray)

\* The Pearson correlation of two edges of equal size, in cost units, rounded
\* toward zero: size^2 * cov / sqrt(size^2 * var1 * size^2 * var2).
Pearson(edge1_gray, edge2_gray) ==
    LET n == Len(edge1_gray)
        cov == n * SumSeq([y \in 1..n |-> edge1_gray[y] * edge2_gray[y]])
                 - SumSeq(edge1_gray) * SumSeq(edge2_gray)
        den == VarTimesSizeSq(edge1_gray) * VarTimesSizeSq(edge2_gray)
        mag == ISqrtIn((CostScale * CostScale * cov * cov) \div den, 0, CostScale)
    IN IF cov < 0 THEN -mag ELSE mag

\* _calculate_ncc_cost: 1 - NCC, between 0 and 2.
NccCost(edge1_gray, edge2_gray) ==
    IF Len(edge1_gray) = 0 \/ Len(edge2_gray) = 0 THEN 2 * CostScale
    ELSE IF IsFlat(edge1_gray) /\ IsFlat(edge2_gray)
    THEN (IF SameMean(edge1_gray, edge2_gray) THEN 0 ELSE CostScale)
    ELSE IF IsFlat(edge1_gray) \/ IsFlat(edge2_gray) THEN CostScale
    ELSE CostScale - Clip(Pearson(edge1_gray, edge2_gray))

(***************************************************************************)
(* Cost matrix.                                                            *)
(***************************************************************************)
Ids(n) == 0..(n - 1)

\* The scorer a variant calls for the pair (right edge of i, left edge of j).
ScoreRaises(v, right, left, height) ==
    CASE v = "sad_list" -> EdgeDifferenceRaises(right, left, height)
      [] v = "sad_numpy" -> EdgeDifferenceNumpyRaises(right, left)
      [] OTHER -> NccCostRaises(right, left)

Score(v, right, left, height) ==
    CASE v = "sad_list" -> EdgeDifference(right, left, height)
      [] v = "sad_numpy" -> EdgeDifferenceNumpy(right, left)
      [] OTHER -> NccCost(right, left)

\* Some call of the scorer in the double loop raises.
BuildRaises(v, data, height) ==
    \E a \in 1..Len(data) : \E b \in 1..Len(data) :
        a # b /\ ScoreRaises(v, data[a].right, data[b].left, height)

\* [[float('inf')] * n for _ in range(n)], then every off-diagonal entry set.
BuildMatrix(v, data, height) ==
    [a \in Ids(Len(data)) |-> [b \in Ids(Len(data)) |->
        IF a = b THEN Inf
        ELSE Score(v, data[a + 1].right, data[b + 1].left, height)]]

\* cost_matrix[a][b]
Cost(matrix, a, b) == matrix[a][b]

\* _calculate_total_path_cost
RECURSIVE PathCostFrom(_, _, _, _, _)
PathCostFrom(permutation, matrix, n, k, total) ==
    IF k >= n - 1 THEN total
    ELSE LET cost == Cost(matrix, permutation[k + 1], permutation[k + 2]) IN
         IF cost = Inf THEN Inf
         ELSE PathCostFrom(permutation, matrix, n, k + 1, total + cost)

TotalPathCost(permutation, matrix, n) ==
    IF permutation = <<>> \/ n <= 1 THEN 0
    ELSE PathCostFrom(permutation, matrix, n, 0, 0)

(***************************************************************************)
(* Greedy chain assembly.                                                  *)
(***************************************************************************)
\* best_next_slice_idx = -1
NoSlice == -1

\* A variant of the scan that compares with "<=": the last unused slice found
\* wins a tie.
RECURSIVE BestNextLastOnTies(_, _, _, _, _, _, _)
BestNextLastOnTies(matrix, n, last, used, k_idx, best_next_slice_idx, min_connection_cost) ==
    IF k_idx >= n
    THEN [best_next_slice_idx |-> best_next_slice_idx,
          min_connection_cost |-> min_connection_cost]
    ELSE IF k_idx \notin used /\ ~FLt(min_connection_cost, Cost(matrix, last, k_idx))
    THEN BestNextLastOnTies(matrix, n, last, used, k_idx + 1, k_idx,
                            Cost(matrix, last, k_idx))
    ELSE BestNextLastOnTies(matrix, n, last, used, k_idx + 1, best_next_slice_idx,
                            min_connection_cost)

\* for k_idx in range(num_slices): the unused slice with the least cost from
\* `last`, the first one found on ties (the comparison is strict).
RECURSIVE BestNext(_, _, _, _, _, _, _)
BestNext(matrix, n, last, used, k_idx, best_next_slice_idx, min_connection_cost) ==
    IF k_idx >= n
    THEN [best_next_slice_idx |-> best_next_slice_idx,
          min_connection_cost |-> min_connection_cost]
    ELSE IF k_idx \notin used /\ FLt(Cost(matrix, last, k_idx), min_connection_cost)
    THEN BestNext(matrix, n, last, used, k_idx + 1, k_idx, Cost(matrix, last, k_idx))
    ELSE BestNext(matrix, n, last, used, k_idx + 1, best_next_slice_idx,
                  min_connection_cost)

\* current_total += min_connection_cost: unconditional in surprise_manager.py,
\* guarded by "!= float('inf')" in the other two.
AddConnection(v, total, cost) ==
    IF v = "sad_list" THEN FAdd(total, cost)
    ELSE IF cost # Inf THEN total + cost ELSE total

\* A variant of the chain loop that stops one strip early:
\* while len(current_permutation_indices) < num_slices - 1
RECURSIVE GrowChainStopsEarly(_, _, _, _, _, _)
GrowChainStopsEarly(v, matrix, n, indices, total, used) ==
    IF Len(indices) >= n - 1 THEN [indices |-> indices, total |-> total]
    ELSE LET next == BestNext(matrix, n, indices[Len(indices)], used, 0, NoSlice, Inf) IN
         IF next.best_next_slice_idx # NoSlice
         THEN GrowChainStopsEarly(v, matrix, n,
                        Append(indices, next.best_next_slice_idx),
                        AddConnection(v, total, next.min_connection_cost),
                        used \cup {next.best_next_slice_idx})
         ELSE [indices |-> indices, total |-> total]

\* while len(current_permutation_indices) < num_slices: ... else: break
RECURSIVE GrowChain(_, _, _, _, _, _)
GrowChain(v, matrix, n, indices, total, used) ==
    IF Len(indices) >= n THEN [indices |-> indices, total |-> total]
    ELSE LET next == BestNext(matrix, n, indices[Len(indices)], used, 0, NoSlice, Inf) IN
         IF next.best_next_slice_idx # NoSlice
         THEN GrowChain(v, matrix, n,
                        Append(indices, next.best_next_slice_idx),
                        AddConnection(v, total, next.min_connection_cost),
                        used \cup {next.best_next_slice_idx})
         ELSE [indices |-> indices, total |-> total]

\* The chain attempt that starts at start_slice_original_idx.
ChainFrom(v, matrix, n, start) == GrowChain(v, matrix, n, << start >>, 0, {start})

\* A variant of the loop over the starts that compares the totals with "<=":
\* the last start wins a tie.
RECURSIVE GreedyFromLastOnTies(_, _, _, _, _, _)
GreedyFromLastOnTies(v, matrix, n, start, best, min) ==
    IF start >= n THEN [permutation |-> best, min_overall |-> min]
    ELSE LET chain == ChainFrom(v, matrix, n, start) IN
         IF Len(chain.indices) = n /\ ~FLt(min, chain.total)
         THEN GreedyFromLastOnTies(v, matrix, n, start + 1, chain.indices, chain.total)
         ELSE GreedyFromLastOnTies(v, matrix, n, start + 1, best, min)

\* A variant of the loop over the starts that keeps the last complete chain,
\* whatever its total.
RECURSIVE GreedyFromKeepsLast(_, _, _, _, _, _)
GreedyFromKeepsLast(v, matrix, n, start, best, min) ==
    IF start >= n THEN [permutation |-> best, min_overall |-> min]
    ELSE LET chain == ChainFrom(v, matrix, n, start) IN
         IF Len(chain.indices) = n
         THEN GreedyFromKeepsLast(v, matrix, n, start + 1, chain.indices, chain.total)
         ELSE GreedyFromKeepsLast(v, matrix, n, start + 1, best, min)

\* for start_slice_original_idx in range(num_slices): keep the first complete
\* chain with the least total.
RECURSIVE GreedyFrom(_, _, _, _, _, _)
GreedyFrom(v, matrix, n, start, best, min) ==
    IF start >= n THEN [permutation |-> best, min_overall |-> min]
    ELSE LET chain == ChainFrom(v, matrix, n, start) IN
         IF Len(chain.indices) = n /\ FLt(chain.total, min)
         THEN GreedyFrom(v, matrix, n, start + 1, chain.indices, chain.total)
         ELSE GreedyFrom(v, matrix, n, start + 1, best, min)

Greedy(v, matrix, n) == GreedyFrom(v, matrix, n, 0, << >>, Inf)

\* The entries one scan for the next slice looks up:
\* dissimilarity_matrix[last][k_idx] for every k_idx not in the used set.
BestNextReads(n, last, used) == { << last, k_idx >> : k_idx \in Ids(n) \ used }

\* The entries the chain attempt from start looks up: one scan for each
\* length of the chain below n, the scan that finds nothing included.
ChainReads(v, matrix, n, start) ==
    LET chain == ChainFrom(v, matrix, n, start).indices IN
    UNION { BestNextReads(n, chain[m], { chain[x] : x \in 1..m }) :
              m \in { x \in 1..Len(chain) : x < n } }

\* The entries the greedy loop looks up.
GreedyReads(v, matrix, n) ==
    UNION { ChainReads(v, matrix, n, start) : start \in Ids(n) }

\* The entries _calculate_total_path_cost looks up for a permutation.
PathCostReads(permutation) ==
    { << permutation[k], permutation[k + 1] >> : k \in 1..(Len(permutation) - 1) }

(***************************************************************************)
(* 2-opt refinement (_apply_2_opt).                                        *)
(***************************************************************************)
\* p[k] of a Python list
At(p, k) == p[k + 1]

\* cost_before: the edges (p[i], p[i+1]) and (p[j], p[j+1])
CostBefore(matrix, p, ii, jj) ==
    FAdd(Cost(matrix, At(p, ii), At(p, ii + 1)), Cost(matrix, At(p, jj), At(p, jj + 1)))

\* cost_after: the edges (p[i], p[j]) and (p[i+1], p[j+1])
CostAfter(matrix, p, ii, jj) ==
    FAdd(Cost(matrix, At(p, ii), At(p, jj)), Cost(matrix, At(p, ii + 1), At(p, jj + 1)))

\* delta = cost_after - cost_before
Delta(matrix, p, ii, jj) == FSub(CostAfter(matrix, p, ii, jj), CostBefore(matrix, p, ii, jj))

\* if delta < min_delta and delta < -self.epsilon
Accepts(delta, md) == XLt(delta, md) /\ XLt(delta, NegEpsilon)

\* A variant of the reversal whose tail starts one element early: p[j:]
ReverseSegmentLongTail(p, ii, jj) ==
    Slice(p, 0, ii + 1) \o Reverse(Slice(p, ii + 1, jj + 1)) \o Slice(p, jj, Len(p))

\* A variant of the reversal whose segment starts one element early:
\* p[:i] + reversed(p[i : j+1]) + p[j+1:]
ReverseSegmentFromI(p, ii, jj) ==
    Slice(p, 0, ii) \o Reverse(Slice(p, ii, jj + 1)) \o Slice(p, jj + 1, Len(p))

\* p[:i+1] + reversed(p[i+1 : j+1]) + p[j+1:]
ReverseSegment(p, ii, jj) ==
    Slice(p, 0, ii + 1) \o Reverse(Slice(p, ii + 1, jj + 1)) \o Slice(p, jj + 1, Len(p))

\* The positions of the permutation one candidate (i, j) uses, and the
\* entries cost_before and cost_after look up.
ScanPositions(ii, jj) == { ii, ii + 1, jj, jj + 1 }
ScanReads(p, ii, jj) ==
    { << At(p, ii), At(p, ii + 1) >>, << At(p, jj), At(p, jj + 1) >>,
      << At(p, ii), At(p, jj) >>, << At(p, ii + 1), At(p, jj + 1) >> }

\* A variant of the scan whose inner loop runs one position too far:
\* "for j in range(i + 2, n)"
HasNextCandidateLongScan(n, ii, jj) == jj + 1 < n \/ ii + 3 < n - 1

\* A variant of the scan whose loops stop one position early:
\* "for i in range(n - 3): for j in range(i + 2, n - 2)"
HasNextCandidateShortScan(n, ii, jj) == jj + 1 < n - 2 \/ ii + 3 < n - 2

\* The loops "for i in range(n - 2): for j in range(i + 2, n - 1)": whether a
\* candidate follows (i, j) in the scan, and which.
HasNextCandidate(n, ii, jj) == jj + 1 < n - 1 \/ ii + 3 < n - 1
NextI(n, ii, jj) == IF jj + 1 < n - 1 THEN ii ELSE ii + 1
NextJ(n, ii, jj) == IF jj + 1 < n - 1 THEN jj + 1 ELSE ii + 3

(***************************************************************************)
(* surprise(slices_bytes), step by step.                                   *)
(***************************************************************************)
Requests == UNION { [1..n -> StripBytes] : n \in 0..MaxN }

\* A constructed SurpriseManager of one of the variants, not yet called.
Init ==
    /\ variant \in Variants
    /\ slices_bytes = << >>
    /\ num_slices = 0
    /\ pc = "idle"
    /\ slice_edge_data = << >>
    /\ common_height = 0
    /\ dissimilarity_matrix = << >>
    /\ initial_permutation = << >>
    /\ min_overall = Inf
    /\ current_permutation = << >>
    /\ i = 0
    /\ j = 0
    /\ improved = FALSE
    /\ min_delta = Num(0)
    /\ result = << >>

\* surprise(slices_bytes) is entered with a request: num_slices = len(slices_bytes)
Call ==
    /\ pc = "idle"
    /\ slices_bytes' \in Requests
    /\ num_slices' = Len(slices_bytes')
    /\ pc' = "call"
    /\ UNCHANGED << variant, slice_edge_data, common_height, dissimilarity_matrix,
                    initial_permutation, min_overall, current_permutation, i, j,
                    improved, min_delta, result >>

\* return value: pc becomes "returned"
Return(value) ==
    /\ result' = value
    /\ pc' = "returned"

\* A variant of the early return that answers one strip like no strip.
ReturnDegenerateEmpty ==
    /\ pc = "call"
    /\ num_slices <= 1
    /\ Return(<< >>)
    /\ UNCHANGED << variant, slices_bytes, num_slices, slice_edge_data, common_height,
                    dissimilarity_matrix, initial_permutation, min_overall,
                    current_permutation, i, j, improved, min_delta >>

\* if num_slices == 0: return [] / if num_slices == 1: return [0]
ReturnDegenerate ==
    /\ pc = "call"
    /\ num_slices <= 1
    /\ Return(IF num_slices = 0 THEN << >> ELSE << 0 >>)
    /\ UNCHANGED << variant, slices_bytes, num_slices, slice_edge_data, common_height,
                    dissimilarity_matrix, initial_permutation, min_overall,
                    current_permutation, i, j, improved, min_delta >>

\* The extraction loop and the check that follows it.
ExtractEdges ==
    /\ pc = "call"
    /\ num_slices >= 2
    /\ LET r == ExtractLoop(variant, slices_bytes, 0, << >>, 0)
           empty == IF variant = "ncc_2opt" THEN r.data = << >>
                    ELSE r.common_height = 0 \/ r.data = << >>
       IN IF r.fallback \/ empty
          THEN /\ Return(Range(num_slices))
               /\ UNCHANGED << slice_edge_data, common_height >>
          ELSE /\ slice_edge_data' = r.data
               /\ common_height' = r.common_height
               /\ pc' = "build"
               /\ UNCHANGED result
    /\ UNCHANGED << variant, slices_bytes, num_slices, dissimilarity_matrix,
                    initial_permutation, min_overall, current_permutation, i, j,
                    improved, min_delta >>

\* The double loop that fills dissimilarity_matrix; an exception of the scorer
\* is not caught and leaves surprise.
BuildCostMatrix ==
    /\ pc = "build"
    /\ IF BuildRaises(variant, slice_edge_data, common_height)
       THEN /\ pc' = "raised"
            /\ UNCHANGED dissimilarity_matrix
       ELSE /\ dissimilarity_matrix' = BuildMatrix(variant, slice_edge_data, common_height)
            /\ pc' = "greedy"
    /\ UNCHANGED << variant, slices_bytes, num_slices, slice_edge_data, common_height,
                    initial_permutation, min_overall, current_permutation, i, j,
                    improved, min_delta, result >>

\* The greedy loop over all start slices.
GreedyAssemble ==
    /\ pc = "greedy"
    /\ LET g == Greedy(variant, dissimilarity_matrix, num_slices) IN
        /\ initial_permutation' = g.permutation
        /\ min_overall' = g.min_overall
    /\ pc' = "assembled"
    /\ UNCHANGED << variant, slices_bytes, num_slices, slice_edge_data, common_height,
                    dissimilarity_matrix, current_permutation, i, j, improved,
                    min_delta, result >>

\* if not best_overall_permutation: return list(range(num_slices))
\* return best_overall_permutation
ReturnGreedy ==
    /\ pc = "assembled"
    /\ variant # "ncc_2opt"
    /\ Return(IF initial_permutation = << >> THEN Range(num_slices)
              ELSE initial_permutation)
    /\ UNCHANGED << variant, slices_bytes, num_slices, slice_edge_data, common_height,
                    dissimilarity_matrix, initial_permutation, min_overall,
                    current_permutation, i, j, improved, min_delta >>

\* if not initial_permutation: initial_permutation = list(range(num_slices))
\* then the call of _apply_2_opt, up to its while loop.
CallTwoOpt ==
    /\ pc = "assembled"
    /\ variant = "ncc_2opt"
    /\ LET initial == IF initial_permutation = << >> THEN Range(num_slices)
                      ELSE initial_permutation
       IN /\ initial_permutation' = initial
          /\ IF num_slices < 4
             THEN /\ Return(initial)
                  /\ UNCHANGED << current_permutation, improved >>
             ELSE /\ current_permutation' = initial
                  /\ improved' = TRUE
                  /\ pc' = "while"
                  /\ UNCHANGED result
    /\ UNCHANGED << variant, slices_bytes, num_slices, slice_edge_data, common_height,
                    dissimilarity_matrix, min_overall, i, j, min_delta >>

\* while improved: improved = False; min_delta = 0.0; enter the scan
\* otherwise return current_permutation
WhileImproved ==
    /\ pc = "while"
    /\ IF improved
       THEN /\ improved' = FALSE
            /\ min_delta' = Num(0)
            /\ i' = 0
            /\ j' = 2
            /\ pc' = "scan"
            /\ UNCHANGED result
       ELSE /\ Return(current_permutation)
            /\ UNCHANGED << improved, min_delta, i, j >>
    /\ UNCHANGED << variant, slices_bytes, num_slices, slice_edge_data, common_height,
                    dissimilarity_matrix, initial_permutation, min_overall,
                    current_permutation >>

\* One pass of the inner loop body for the candidate (i, j), then the step to
\* the next candidate or to the end of the scan.
ScanCandidate ==
    /\ pc = "scan"
    /\ LET delta == Delta(dissimilarity_matrix, current_permutation, i, j) IN
       IF Accepts(delta, min_delta)
       THEN /\ current_permutation' = ReverseSegment(current_permutation, i, j)
            /\ improved' = TRUE
            /\ min_delta' = delta
       ELSE UNCHANGED << current_permutation, improved, min_delta >>
    /\ IF HasNextCandidate(num_slices, i, j)
       THEN /\ i' = NextI(num_slices, i, j)
            /\ j' = NextJ(num_slices, i, j)
            /\ pc' = "scan"
       ELSE /\ pc' = "while"
            /\ UNCHANGED << i, j >>
    /\ UNCHANGED << variant, slices_bytes, num_slices, slice_edge_data, common_height,
                    dissimilarity_matrix, initial_permutation, min_overall, result >>

Next ==
    \/ Call
    \/ ReturnDegenerate
    \/ ExtractEdges
    \/ BuildCostMatrix
    \/ GreedyAssemble
    \/ ReturnGreedy
    \/ CallTwoOpt
    \/ WhileImproved
    \/ ScanCandidate

Spec == Init /\ [][Next]_vars

\* _apply_2_opt is synchronous, single-threaded code: once its loop is
\* entered, the next step of the loop is always taken.
FairSpec ==
    Init /\ [][Next]_vars /\ WF_vars(WhileImproved) /\ WF_vars(ScanCandidate)

(***************************************************************************)
(* The assembly stage on its own: the greedy loop, the fallback and        *)
(* _apply_2_opt applied to a cost matrix that is given, with usable and    *)
(* unusable (float('inf')) entries off the diagonal.                       *)
(***************************************************************************)
MaxMatrixN == 4

OffDiagonal(n) == { ab \in Ids(n) \X Ids(n) : ab[1] # ab[2] }

\* An entry is the cost 0.0, the cost 1.0 or float('inf'); the matrices of
\* the largest size take the cost 1.0 or float('inf') only.
MatrixEntries(n) ==
    IF n < MaxMatrixN THEN { 0, CostScale, Inf } ELSE { CostScale, Inf }

CostMatrices(n) ==
    { [a \in Ids(n) |-> [b \in Ids(n) |-> IF a = b THEN Inf ELSE f[<< a, b >>]]] :
        f \in [OffDiagonal(n) -> MatrixEntries(n)] }

\* surprise has reached its greedy loop with some matrix over n strips.
AssembleInit ==
    /\ variant \in Variants
    /\ num_slices \in 2..MaxMatrixN
    /\ dissimilarity_matrix \in CostMatrices(num_slices)
    /\ pc = "greedy"
    /\ slices_bytes = << >>
    /\ slice_edge_data = << >>
    /\ common_height = 0
    /\ initial_permutation = << >>
    /\ min_overall = Inf
    /\ current_permutation = << >>
    /\ i = 0
    /\ j = 0
    /\ improved = FALSE
    /\ min_delta = Num(0)
    /\ result = << >>

AssembleNext ==
    \/ GreedyAssemble
    \/ ReturnGreedy
    \/ CallTwoOpt
    \/ WhileImproved
    \/ ScanCandidate

AssembleSpec == AssembleInit /\ [][AssembleNext]_vars

(***************************************************************************)
(* Vocabulary of the properties.                                           *)
(***************************************************************************)
\* p holds each id 0..n-1 exactly once.
IsPermutation(p, n) ==
    /\ Len(p) = n
    /\ \A id \in Ids(n) : Cardinality({k \in 1..n : p[k] = id}) = 1

AllDecodable == \A k \in 1..Len(slices_bytes) : slices_bytes[k].ok
SomeUndecodable == \E k \in 1..Len(slices_bytes) : ~slices_bytes[k].ok
HeightsDiffer ==
    \E a, b \in 1..Len(slices_bytes) :
        Len(slices_bytes[a].left) # Len(slices_bytes[b].left)

\* _apply_2_opt has run its loop and returned.
RefinedAndReturned ==
    pc = "returned" /\ variant = "ncc_2opt" /\ current_permutation # << >>

(***************************************************************************)
(* C1: every value surprise returns is a sequence of length n that holds   *)
(* each id 0..n-1 exactly once, in the greedy-only variants and in the     *)
(* variant that refines the greedy result with _apply_2_opt.               *)
(***************************************************************************)
C1_ReturnsPermutation == pc = "returned" => IsPermutation(result, num_slices)

\* _apply_2_opt has changed the greedy result and returned it.
C1_Witness ==
    /\ RefinedAndReturned
    /\ result # initial_permutation
    /\ result # Range(num_slices)

(***************************************************************************)
(* C2: surprise never raises to its caller, whatever mix of undecodable    *)
(* strips and strips of differing heights the request holds.               *)
(***************************************************************************)
C2_NeverRaises == pc # "raised"

(***************************************************************************)
(* C3: the path cost of the permutation _apply_2_opt returns is at most    *)
(* the path cost of the permutation it was given.                          *)
(***************************************************************************)
C3_RefinementNeverCostsMore ==
    RefinedAndReturned =>
        ~FLt(TotalPathCost(initial_permutation, dissimilarity_matrix, num_slices),
             TotalPathCost(result, dissimilarity_matrix, num_slices))

(***************************************************************************)
(* C4: the while loop of _apply_2_opt ends: every call of _apply_2_opt     *)
(* that enters the loop eventually returns.                                *)
(***************************************************************************)
C4_RefinementTerminates == (pc = "while") ~> (pc = "returned")

(***************************************************************************)
(* C5: for a request of n >= 2 decodable strips of which two differ in     *)
(* height, the value surprise returns is [0, 1, ..., n-1], in every        *)
(* variant.                                                                *)
(***************************************************************************)
C5_HeightMismatchReturnsIdentity ==
    (pc = "returned" /\ num_slices >= 2 /\ AllDecodable /\ HeightsDiffer) =>
        result = Range(num_slices)

(***************************************************************************)
(* C6: a request of n >= 2 strips of which at least one does not decode    *)
(* returns [0, 1, ..., n-1], and neither builds a cost matrix nor runs     *)
(* the greedy assembly.                                                    *)
(***************************************************************************)
C6_DecodeFailureReturnsIdentity ==
    (num_slices >= 2 /\ SomeUndecodable) =>
        /\ pc \in {"call", "returned"}
        /\ pc = "returned" => result = Range(num_slices)
        /\ dissimilarity_matrix = << >>
        /\ initial_permutation = << >>

\* Returned for a request whose last strip alone does not decode.
C6_Witness ==
    /\ pc = "returned"
    /\ num_slices >= 3
    /\ ~slices_bytes[num_slices].ok
    /\ \A k \in 1..(num_slices - 1) : slices_bytes[k].ok
    /\ result = Range(num_slices)

\* The greedy loop has run over the matrix and completed a chain from no start.
NoChainCompleted ==
    /\ pc \in {"assembled", "while", "scan", "returned"}
    /\ dissimilarity_matrix # << >>
    /\ Greedy(variant, dissimilarity_matrix, num_slices).permutation = << >>

PermutationsOf ==
    [n \in 0..MaxN |->
        { q \in [1..n -> Ids(n)] : \A a, b \in 1..n : a # b => q[a] # q[b] }]

\* Every edge of q costs 0 and every other entry off the diagonal costs more.
ZeroCostPath(q, matrix, n) ==
    /\ \A k \in 1..(n - 1) : matrix[q[k]][q[k + 1]] = 0
    /\ \A a, b \in Ids(n) :
          (a # b /\ ~\E k \in 1..(n - 1) : q[k] = a /\ q[k + 1] = b) =>
              FLt(0, matrix[a][b])

(***************************************************************************)
(* C8: when the cost matrix holds an ordering q of the n >= 2 ids whose    *)
(* every edge costs 0 while every other entry off the diagonal costs more, *)
(* surprise returns q, after the greedy loop alone and after the greedy    *)
(* loop followed by _apply_2_opt.                                          *)
(***************************************************************************)
C8_ZeroCostPathIsReturned ==
    (pc = "returned" /\ dissimilarity_matrix # << >>) =>
        \A q \in PermutationsOf[num_slices] :
            ZeroCostPath(q, dissimilarity_matrix, num_slices) => result = q

\* Four strips given out of order, put back in order by the greedy loop and
\* left so by _apply_2_opt.
C8_Witness ==
    /\ RefinedAndReturned
    /\ num_slices = 4
    /\ result # Range(num_slices)
    /\ ZeroCostPath(result, dissimilarity_matrix, num_slices)

(***************************************************************************)
(* C9: surprise on no strip returns the empty sequence and surprise on one *)
(* strip returns [0], both before any edge is extracted, so also when the  *)
(* one strip does not decode.                                              *)
(***************************************************************************)
C9_DegenerateInputs ==
    (pc # "idle" /\ num_slices <= 1) =>
        /\ pc \in {"call", "returned"}
        /\ pc = "returned" => result = (IF num_slices = 0 THEN << >> ELSE << 0 >>)
        /\ slice_edge_data = << >>

\* [0] returned for one strip that does not decode.
C9_Witness ==
    /\ pc = "returned"
    /\ num_slices = 1
    /\ ~slices_bytes[1].ok
    /\ result = << 0 >>

(***************************************************************************)
(* C11: once _apply_2_opt has applied a reversal in a scan, it evaluates   *)
(* no further candidate (i, j) of that scan: whenever a candidate is about *)
(* to be evaluated, no move has been applied in the scan so far.           *)
(***************************************************************************)
C11_NoCandidateAfterMove == pc = "scan" => ~improved

\* Some entry off the diagonal is a usable (finite) cost.
SomeUsableEntry ==
    \E a, b \in Ids(num_slices) : a # b /\ dissimilarity_matrix[a][b] # Inf

\* Every entry off the diagonal is a usable (finite) cost.
EveryEntryUsable ==
    \A a, b \in Ids(num_slices) : a # b => dissimilarity_matrix[a][b] # Inf

\* The chain attempt from start reaches length n.
CompletesFrom(start) ==
    Len(ChainFrom(variant, dissimilarity_matrix, num_slices, start).indices) = num_slices

UsedBefore(chain, m) == { chain[x] : x \in 1..(m - 1) }
UnusedBefore(chain, m) == Ids(num_slices) \ UsedBefore(chain, m)

\* The id appended at position m is unused, its cost from the id before it is
\* usable and the least among the unused ids, and it is the smallest id with
\* that cost.
StepFollowsRule(chain, m) ==
    LET row == dissimilarity_matrix[chain[m - 1]]
        k == chain[m]
    IN /\ k \in UnusedBefore(chain, m)
       /\ row[k] # Inf
       /\ \A u \in UnusedBefore(chain, m) : ~FLt(row[u], row[k])
       /\ \A u \in UnusedBefore(chain, m) : row[u] = row[k] => k <= u

\* No unused id has a usable cost from the last id of chain.
Stranded(chain) ==
    \A u \in UnusedBefore(chain, Len(chain) + 1) :
        dissimilarity_matrix[chain[Len(chain)]][u] = Inf

(***************************************************************************)
(* C13: in the chain attempt of every start, each appended id is unused,   *)
(* of usable and least cost from the last id, and the smallest id of that  *)
(* cost; an attempt ends short of n exactly where no unused id has a       *)
(* usable cost from its last id, and such an attempt is not the chain the  *)
(* greedy loop keeps.                                                      *)
(***************************************************************************)
C13_GreedyStepRule ==
    pc = "assembled" =>
        \A start \in Ids(num_slices) :
            LET chain == ChainFrom(variant, dissimilarity_matrix, num_slices,
                                   start).indices
            IN /\ chain[1] = start
               /\ Len(chain) <= num_slices
               /\ \A m \in 2..Len(chain) : StepFollowsRule(chain, m)
               /\ Len(chain) < num_slices =>
                      (Stranded(chain) /\ initial_permutation # chain)

\* One start is abandoned after it has appended an id, another start wins a
\* tie between two unused ids, and a complete chain is kept.
C13_Witness ==
    /\ pc = "assembled"
    /\ Len(initial_permutation) = num_slices
    /\ \E start \in Ids(num_slices) :
          LET chain == ChainFrom(variant, dissimilarity_matrix, num_slices,
                                 start).indices
          IN 1 < Len(chain) /\ Len(chain) < num_slices
    /\ \E u \in Ids(num_slices) \ {initial_permutation[1], initial_permutation[2]} :
          /\ dissimilarity_matrix[initial_permutation[1]][u]
               = dissimilarity_matrix[initial_permutation[1]][initial_permutation[2]]
          /\ dissimilarity_matrix[initial_permutation[1]][u] # Inf

\* The chain attempt from start, with its accumulated total.
Attempt(start) == ChainFrom(variant, dissimilarity_matrix, num_slices, start)

\* The starts whose attempts reach length n.
CompleteStarts == { start \in Ids(num_slices) : CompletesFrom(start) }

(***************************************************************************)
(* C14: when all starts have been tried, a chain is kept if some start     *)
(* completes; the chain kept is the complete chain of its first id, its    *)
(* total is the accumulated total of that attempt and the path cost of the *)
(* chain, no complete chain of another start has a smaller total, and no   *)
(* smaller start has a complete chain of the same total.                   *)
(***************************************************************************)
C14_GreedyKeepsCheapestChain ==
    pc = "assembled" =>
        /\ CompleteStarts # {} => initial_permutation # << >>
        /\ initial_permutation # << >> =>
             /\ Len(initial_permutation) = num_slices
             /\ initial_permutation = Attempt(initial_permutation[1]).indices
             /\ min_overall = Attempt(initial_permutation[1]).total
             /\ min_overall = TotalPathCost(initial_permutation, dissimilarity_matrix,
                                            num_slices)
             /\ \A start \in CompleteStarts :
                   /\ ~FLt(Attempt(start).total, min_overall)
                   /\ Attempt(start).total = min_overall =>
                          initial_permutation[1] <= start

\* The chain kept wins a tie against the different chain of a later start and
\* beats the dearer chain of another start.
C14_Witness ==
    /\ pc = "assembled"
    /\ initial_permutation # << >>
    /\ \E start \in CompleteStarts :
          /\ start > initial_permutation[1]
          /\ Attempt(start).total = min_overall
          /\ Attempt(start).indices # initial_permutation
    /\ \E start \in CompleteStarts : FLt(min_overall, Attempt(start).total)

\* The pairs of positions (i, j) that _apply_2_opt may exchange over n strips.
Candidates(n) == { ij \in (0..(n - 3)) \X (2..(n - 2)) : ij[1] + 2 <= ij[2] }

(***************************************************************************)
(* C15: the permutation _apply_2_opt returns for n >= 4 strips is a local  *)
(* optimum: for no pair of positions i, j with i + 2 <= j <= n - 2 is      *)
(* cost_after - cost_before below -epsilon.                                *)
(***************************************************************************)
C15_ReturnsLocalOptimum ==
    (RefinedAndReturned /\ num_slices >= 4) =>
        \A ij \in Candidates(num_slices) :
            ~XLt(Delta(dissimilarity_matrix, result, ij[1], ij[2]), NegEpsilon)

\* _apply_2_opt has changed a chain of five strips and then returned.
C15_Witness ==
    /\ RefinedAndReturned
    /\ num_slices = 5
    /\ EveryEntryUsable
    /\ result # initial_permutation

\* Every entry of reads is off the diagonal and inside the matrix.
OffDiagonalInRange(reads) ==
    \A ab \in reads :
        /\ ab[1] \in Ids(num_slices)
        /\ ab[2] \in Ids(num_slices)
        /\ ab[1] # ab[2]

(***************************************************************************)
(* C16: the diagonal of the cost matrix is never read: every entry the     *)
(* greedy loop, the path-cost computation and a candidate of _apply_2_opt  *)
(* look up has two different ids of 0..n-1, and the positions i, i+1, j    *)
(* and j+1 a candidate uses are positions 0..n-1 of the permutation.       *)
(***************************************************************************)
C16_DiagonalNeverRead ==
    /\ pc = "assembled" =>
          OffDiagonalInRange(GreedyReads(variant, dissimilarity_matrix, num_slices))
    /\ pc = "scan" =>
          /\ Len(current_permutation) = num_slices
          /\ ScanPositions(i, j) \subseteq Ids(num_slices)
          /\ OffDiagonalInRange(ScanReads(current_permutation, i, j))
    /\ dissimilarity_matrix # << >> =>
          /\ OffDiagonalInRange(PathCostReads(initial_permutation))
          /\ OffDiagonalInRange(PathCostReads(current_permutation))
          /\ OffDiagonalInRange(PathCostReads(result))

\* The last candidate of a scan over five strips, after a move of that scan:
\* position j + 1 is the last position.
C16_Witness ==
    /\ pc = "scan"
    /\ num_slices = 5
    /\ i = 1
    /\ j = 3
    /\ improved

\* _apply_2_opt is running or has returned: initial_permutation is its input
\* list and current_permutation its working copy.
InTwoOpt == variant = "ncc_2opt" /\ current_permutation # << >>

\* p and q hold the same id at position 0 and the same id at position n - 1.
SameEnds(p, q) ==
    /\ Len(p) = num_slices
    /\ Len(q) = num_slices
    /\ p[1] = q[1]
    /\ p[num_slices] = q[num_slices]

\* The ends of the working copy and of the value returned are the ends of the
\* input list.
EndsStay ==
    InTwoOpt =>
        /\ SameEnds(current_permutation, initial_permutation)
        /\ pc = "returned" => SameEnds(result, initial_permutation)

\* No step of _apply_2_opt changes its input list.
InputListStays == InTwoOpt => initial_permutation' = initial_permutation

(***************************************************************************)
(* C17: _apply_2_opt never moves the end strips: its working copy and the  *)
(* permutation it returns hold the ids of its input list at position 0 and *)
(* at position n - 1, and no step of it changes the input list.            *)
(***************************************************************************)
C17_EndStripsStay == []EndsStay /\ [][InputListStays]_vars

\* _apply_2_opt has returned five strips with both inner neighbours of the
\* ends changed and the ends in place.
C17_Witness ==
    /\ RefinedAndReturned
    /\ num_slices = 5
    /\ result[2] # initial_permutation[2]
    /\ result[4] # initial_permutation[4]
    /\ SameEnds(result, initial_permutation)

====
